---------------------------- MODULE Spec2Model ----------------------------
(***************************************************************************)
(* Model of the gasless-transaction relayer client                         *)
(* (src/src/relayer/index.ts, class RelayerClient).                        *)
(*                                                                         *)
(* The client wraps a transport (RelayClient of @polymarket/relayer-client)*)
(* and a signer.  The model keeps the fields of the class (config, client, *)
(* walletAddress), the pending getAddress() promise of the frontend        *)
(* signer, the relay's view of every transaction, and, for every caller,   *)
(* the public operation it has in flight: its arguments, the transport     *)
(* calls it has issued, and its outcome.                                   *)
(***************************************************************************)
EXTENDS Integers, Sequences, FiniteSets, TLC

VARIABLES
    config,         \* the RelayerConfig handed to the constructor
    phase,          \* "new" (constructor not run) | "constructed" | "failed"
    ctorError,      \* message of the Error the constructor threw, or Undefined
    client,         \* this.client : the transport the constructor created
    ctorLog,        \* transport calls issued while the constructor ran
    walletAddress,  \* this.walletAddress
    addrPromise,    \* signer.getAddress() promise: "none" | "pending" | "resolved" | "rejected"
    relay,          \* relay side: transaction id -> state, "none" when unknown
    op,             \* caller -> public operation in flight ("idle" when none)
    args,           \* caller -> arguments of that operation
    pc,             \* caller -> position inside the operation
    tlog,           \* caller -> transport calls issued by the operation
    obs,            \* caller -> answers the transport gave the operation, in order
    waits,          \* caller -> sleeps completed by the poll loop
    terr,           \* caller -> a transport call of the operation threw
    cancel,         \* caller -> an external cancellation signal was raised
    result          \* caller -> outcome of the operation

vars == << config, phase, ctorError, client, ctorLog, walletAddress, addrPromise, relay,
           op, args, pc, tlog, obs, waits, terr, cancel, result >>

(***************************************************************************)
(* Bounds of the model.                                                    *)
(***************************************************************************)
MaxPollsBound == 3      \* largest maxPolls a caller passes

Callers == {"a"}

(***************************************************************************)
(* Values.                                                                 *)
(***************************************************************************)
Undefined == "<undefined>"          \* JavaScript undefined, for string slots
Absent == [present |-> FALSE]       \* an optional object or argument left out
Some(v) == [present |-> TRUE, v |-> v]

Truthy(s) == s # Undefined /\ s # ""

DEFAULT_RELAYER_URL == "https://relayer.polymarket.com"
DefaultChainId == 137

\* Transaction states documented on getTransaction.
States == {"STATE_NEW", "STATE_EXECUTED", "STATE_MINED", "STATE_CONFIRMED",
           "STATE_FAILED"}
TerminalStates == {"STATE_CONFIRMED", "STATE_FAILED"}
StateRank(s) == CASE s = "STATE_NEW" -> 0
                  [] s = "STATE_EXECUTED" -> 1
                  [] s = "STATE_MINED" -> 2
                  [] OTHER -> 3

TxIds == {"tx-1"}

\* Outcomes of an operation.
Pending == [kind |-> "pending"]
Return(v) == [kind |-> "return", value |-> v]
Throw(m) == [kind |-> "throw", message |-> m]
UndefinedValue == [tag |-> "undefined"]

\* An error message is the sequence of its parts: a context put in front of
\* a message (`${context}: ${error.message}`) is one more part in front.
Message(text) == << text >>

\* A failure of the transport (network failure, non-2xx answer).
TransportMessages == {Message("request failed")}

(***************************************************************************)
(* Configurations.                                                         *)
(***************************************************************************)
PrivateKeys == {"", "0xkey1", "not-a-key"}
WellFormedKey(k) == k \in {"0xkey1", "0xkey2"}

\* ethers.Wallet(privateKey).address : a function of the key alone.
WalletAddressOf(k) == IF k = "0xkey1" THEN "0xAddr1" ELSE "0xAddr2"

SignerAddress == "0xSigner"

Backends == {Absent} \cup {Some([privateKey |-> k]) : k \in PrivateKeys}
Signers == {[hasGetAddress |-> TRUE], [hasGetAddress |-> FALSE]}
Frontends == {Absent, Some([signer |-> Absent])}
                \cup {Some([signer |-> Some(s)]) : s \in Signers}
DefaultOptions == [relayerUrl |-> Undefined, chainId |-> 0, auth |-> Absent]
CustomOptions == [relayerUrl |-> "https://relay.example", chainId |-> 80002,
                  auth |-> Some([authUrl |-> "u", authToken |-> "t"])]

Config(b, f, o) == [backend |-> b, frontend |-> f, relayerUrl |-> o.relayerUrl,
                    chainId |-> o.chainId, auth |-> o.auth]

\* Every pairing of a backend entry with a frontend entry under the default
\* options, each single mode (and no mode) under custom options as well, and
\* a second backend key.
Configs == { Config(b, f, DefaultOptions) : b \in Backends, f \in Frontends }
           \cup { Config(Absent, Absent, CustomOptions),
                  Config(Some([privateKey |-> "0xkey1"]), Absent, CustomOptions),
                  Config(Some([privateKey |-> "0xkey2"]), Absent, DefaultOptions),
                  Config(Absent, Some([signer |-> Some([hasGetAddress |-> TRUE])]),
                         CustomOptions) }

NoClient == [set |-> FALSE]

\* new RelayClient(relayerUrl, chainId, signer[, auth])
RelayClient(url, chain, signer, auth) ==
    [set |-> TRUE, relayerUrl |-> url, chainId |-> chain, signer |-> signer,
     auth |-> auth]

MsgNoMode ==
    "Relayer configuration must include either 'backend' or 'frontend' mode. For automated systems use 'backend' with privateKey. For web apps use 'frontend' with signer."
MsgInvalidConfig == "Invalid relayer configuration"
MsgInvalidKey == "invalid private key"

\* config.backend?.privateKey and config.frontend?.signer as conditions
BackendKeyTruthy(cfg) == cfg.backend.present /\ Truthy(cfg.backend.v.privateKey)
FrontendSignerTruthy(cfg) == cfg.frontend.present /\ cfg.frontend.v.signer.present

ConstructorThrew(m) ==
    [threw |-> TRUE, error |-> m, calls |-> << >>, client |-> NoClient,
     walletAddress |-> Undefined, addrPromise |-> "none"]

\* A constructor that defers validation: with no signing mode it still
\* returns an instance, holding a transport without a signer.
constructor_LazyValidation(cfg) ==
    LET relayerUrl == IF Truthy(cfg.relayerUrl) THEN cfg.relayerUrl
                      ELSE DEFAULT_RELAYER_URL
        chainId == IF cfg.chainId # 0 THEN cfg.chainId ELSE DefaultChainId
    IN  IF BackendKeyTruthy(cfg) /\ WellFormedKey(cfg.backend.v.privateKey)
        THEN [threw |-> FALSE, error |-> Undefined, calls |-> << >>,
              client |-> RelayClient(relayerUrl, chainId,
                           [wallet |-> cfg.backend.v.privateKey], cfg.auth),
              walletAddress |-> WalletAddressOf(cfg.backend.v.privateKey),
              addrPromise |-> "none"]
        ELSE [threw |-> FALSE, error |-> Undefined, calls |-> << >>,
              client |-> RelayClient(relayerUrl, chainId, [wallet |-> ""], cfg.auth),
              walletAddress |-> Undefined, addrPromise |-> "none"]

BackendClient(cfg, pending) ==
    [threw |-> FALSE, error |-> Undefined, calls |-> << >>,
     client |-> RelayClient(IF Truthy(cfg.relayerUrl) THEN cfg.relayerUrl
                            ELSE DEFAULT_RELAYER_URL,
                            IF cfg.chainId # 0 THEN cfg.chainId ELSE DefaultChainId,
                            [wallet |-> cfg.backend.v.privateKey], cfg.auth),
     walletAddress |-> WalletAddressOf(cfg.backend.v.privateKey),
     addrPromise |-> pending]

FrontendClient(cfg, wallet, pending) ==
    [threw |-> FALSE, error |-> Undefined, calls |-> << >>,
     client |-> RelayClient(IF Truthy(cfg.relayerUrl) THEN cfg.relayerUrl
                            ELSE DEFAULT_RELAYER_URL,
                            IF cfg.chainId # 0 THEN cfg.chainId ELSE DefaultChainId,
                            [signer |-> cfg.frontend.v.signer.v], cfg.auth),
     walletAddress |-> wallet, addrPromise |-> pending]

\* A constructor whose two modes are independent ifs: with both configured
\* it uses the backend key and still asks the frontend signer for its address.
constructor_BothModes(cfg) ==
    IF ~cfg.backend.present /\ ~cfg.frontend.present
    THEN ConstructorThrew(MsgNoMode)
    ELSE IF BackendKeyTruthy(cfg)
    THEN IF ~WellFormedKey(cfg.backend.v.privateKey)
         THEN ConstructorThrew(MsgInvalidKey)
         ELSE BackendClient(cfg,
                IF FrontendSignerTruthy(cfg) /\ cfg.frontend.v.signer.v.hasGetAddress
                THEN "pending" ELSE "none")
    ELSE IF FrontendSignerTruthy(cfg)
    THEN FrontendClient(cfg, Undefined,
            IF cfg.frontend.v.signer.v.hasGetAddress THEN "pending" ELSE "none")
    ELSE ConstructorThrew(MsgInvalidConfig)

\* A constructor that waits for the frontend signer's address before it
\* returns.
constructor_AwaitsAddress(cfg) ==
    IF ~cfg.backend.present /\ ~cfg.frontend.present
    THEN ConstructorThrew(MsgNoMode)
    ELSE IF BackendKeyTruthy(cfg)
    THEN IF ~WellFormedKey(cfg.backend.v.privateKey)
         THEN ConstructorThrew(MsgInvalidKey)
         ELSE BackendClient(cfg, "none")
    ELSE IF FrontendSignerTruthy(cfg)
    THEN IF cfg.frontend.v.signer.v.hasGetAddress
         THEN FrontendClient(cfg, SignerAddress, "resolved")
         ELSE FrontendClient(cfg, Undefined, "none")
    ELSE ConstructorThrew(MsgInvalidConfig)

\* A constructor that leaves the backend address to be derived later.
constructor_LazyAddress(cfg) ==
    IF ~cfg.backend.present /\ ~cfg.frontend.present
    THEN ConstructorThrew(MsgNoMode)
    ELSE IF BackendKeyTruthy(cfg)
    THEN IF ~WellFormedKey(cfg.backend.v.privateKey)
         THEN ConstructorThrew(MsgInvalidKey)
         ELSE [BackendClient(cfg, "none") EXCEPT !.walletAddress = Undefined]
    ELSE IF FrontendSignerTruthy(cfg)
    THEN FrontendClient(cfg, Undefined,
            IF cfg.frontend.v.signer.v.hasGetAddress THEN "pending" ELSE "none")
    ELSE ConstructorThrew(MsgInvalidConfig)

\* A constructor that asks the relay for its address as soon as the
\* transport exists.
constructor_EagerRelayCall(cfg) ==
    IF ~cfg.backend.present /\ ~cfg.frontend.present
    THEN ConstructorThrew(MsgNoMode)
    ELSE IF BackendKeyTruthy(cfg)
    THEN IF ~WellFormedKey(cfg.backend.v.privateKey)
         THEN ConstructorThrew(MsgInvalidKey)
         ELSE [BackendClient(cfg, "none") EXCEPT
                  !.calls = << [method |-> "getRelayAddress"] >>]
    ELSE IF FrontendSignerTruthy(cfg)
    THEN [FrontendClient(cfg, Undefined,
            IF cfg.frontend.v.signer.v.hasGetAddress THEN "pending" ELSE "none")
          EXCEPT !.calls = << [method |-> "getRelayAddress"] >>]
    ELSE ConstructorThrew(MsgInvalidConfig)

\* A constructor that looks at the frontend signer first.
constructor_FrontendFirst(cfg) ==
    IF ~cfg.backend.present /\ ~cfg.frontend.present
    THEN ConstructorThrew(MsgNoMode)
    ELSE IF FrontendSignerTruthy(cfg)
    THEN FrontendClient(cfg, Undefined,
            IF cfg.frontend.v.signer.v.hasGetAddress THEN "pending" ELSE "none")
    ELSE IF BackendKeyTruthy(cfg)
    THEN IF ~WellFormedKey(cfg.backend.v.privateKey)
         THEN ConstructorThrew(MsgInvalidKey)
         ELSE BackendClient(cfg, "none")
    ELSE ConstructorThrew(MsgInvalidConfig)

\* A constructor without its final else: with no usable mode it returns an
\* instance whose transport was never set.
constructor_NoFinalThrow(cfg) ==
    IF ~cfg.backend.present /\ ~cfg.frontend.present
    THEN ConstructorThrew(MsgNoMode)
    ELSE IF BackendKeyTruthy(cfg)
    THEN IF ~WellFormedKey(cfg.backend.v.privateKey)
         THEN ConstructorThrew(MsgInvalidKey)
         ELSE BackendClient(cfg, "none")
    ELSE IF FrontendSignerTruthy(cfg)
    THEN FrontendClient(cfg, Undefined,
            IF cfg.frontend.v.signer.v.hasGetAddress THEN "pending" ELSE "none")
    ELSE [threw |-> FALSE, error |-> Undefined, calls |-> << >>,
          client |-> NoClient, walletAddress |-> Undefined,
          addrPromise |-> "none"]

\* RelayerClient.constructor: what it throws, or the fields it leaves.
constructor(cfg) ==
    IF ~cfg.backend.present /\ ~cfg.frontend.present
    THEN ConstructorThrew(MsgNoMode)
    ELSE
      LET relayerUrl == IF Truthy(cfg.relayerUrl) THEN cfg.relayerUrl
                        ELSE DEFAULT_RELAYER_URL
          chainId == IF cfg.chainId # 0 THEN cfg.chainId ELSE DefaultChainId
      IN  IF BackendKeyTruthy(cfg)
          THEN IF ~WellFormedKey(cfg.backend.v.privateKey)
               THEN ConstructorThrew(MsgInvalidKey)   \* new ethers.Wallet throws
               ELSE [threw |-> FALSE, error |-> Undefined, calls |-> << >>,
                     client |-> RelayClient(relayerUrl, chainId,
                                  [wallet |-> cfg.backend.v.privateKey], cfg.auth),
                     walletAddress |-> WalletAddressOf(cfg.backend.v.privateKey),
                     addrPromise |-> "none"]
          ELSE IF FrontendSignerTruthy(cfg)
          THEN [threw |-> FALSE, error |-> Undefined, calls |-> << >>,
                client |-> RelayClient(relayerUrl, chainId,
                             [signer |-> cfg.frontend.v.signer.v], cfg.auth),
                walletAddress |-> Undefined,
                addrPromise |-> IF cfg.frontend.v.signer.v.hasGetAddress
                                THEN "pending" ELSE "none"]
          ELSE ConstructorThrew(MsgInvalidConfig)

(***************************************************************************)
(* waitForTransaction and the poll loop it delegates to.                   *)
(***************************************************************************)
DefaultDesiredStates == {"STATE_CONFIRMED"}
DefaultFailState == "STATE_FAILED"
DefaultMaxPolls == 60
DefaultPollFrequency == 2000

WithDefault(a, d) == IF a.present THEN a.v ELSE d

\* Defaults that name the states without the relay's STATE_ prefix.
WaitParams_BareNames(a) ==
    [transactionId |-> a.transactionId,
     desiredStates |-> WithDefault(a.desiredStates, {"CONFIRMED"}),
     failState |-> WithDefault(a.failState, "FAILED"),
     maxPolls |-> WithDefault(a.maxPolls, DefaultMaxPolls),
     pollFrequency |-> WithDefault(a.pollFrequency, DefaultPollFrequency)]

\* The parameters of waitForTransaction after its defaults are applied.
WaitParams(a) ==
    [transactionId |-> a.transactionId,
     desiredStates |-> WithDefault(a.desiredStates, DefaultDesiredStates),
     failState |-> WithDefault(a.failState, DefaultFailState),
     maxPolls |-> WithDefault(a.maxPolls, DefaultMaxPolls),
     pollFrequency |-> WithDefault(a.pollFrequency, DefaultPollFrequency)]

\* Handing the loop one poll more than the caller's budget.
pollUntilStateArgs_OffByOne(p) ==
    [transactionId |-> p.transactionId, states |-> p.desiredStates,
     failState |-> p.failState, maxPolls |-> p.maxPolls + 1,
     pollFrequency |-> p.pollFrequency]

\* Ignoring the caller's desiredStates in favour of the default.
pollUntilStateArgs_DefaultStates(p) ==
    [transactionId |-> p.transactionId, states |-> DefaultDesiredStates,
     failState |-> p.failState, maxPolls |-> p.maxPolls,
     pollFrequency |-> p.pollFrequency]

\* Ignoring the caller's failState in favour of the default.
pollUntilStateArgs_DefaultFailState(p) ==
    [transactionId |-> p.transactionId, states |-> p.desiredStates,
     failState |-> DefaultFailState, maxPolls |-> p.maxPolls,
     pollFrequency |-> p.pollFrequency]

\* Passing maxPolls and pollFrequency in each other's place.
pollUntilStateArgs_Swapped(p) ==
    [transactionId |-> p.transactionId, states |-> p.desiredStates,
     failState |-> p.failState, maxPolls |-> p.pollFrequency,
     pollFrequency |-> p.maxPolls]

\* Keeping the identifier in a place every call shares: each loop polls the
\* transaction of the first submission.
pollUntilStateArgs_SharedId(p) ==
    [transactionId |-> "tx-1", states |-> p.desiredStates,
     failState |-> p.failState, maxPolls |-> p.maxPolls,
     pollFrequency |-> p.pollFrequency]

\* Taking the fail state out of the desired states before the loop starts.
pollUntilStateArgs_FailStateWins(p) ==
    [transactionId |-> p.transactionId,
     states |-> p.desiredStates \ {p.failState},
     failState |-> p.failState, maxPolls |-> p.maxPolls,
     pollFrequency |-> p.pollFrequency]

\* The arguments waitForTransaction hands to client.pollUntilState.
pollUntilStateArgs(p) ==
    [transactionId |-> p.transactionId, states |-> p.desiredStates,
     failState |-> p.failState, maxPolls |-> p.maxPolls,
     pollFrequency |-> p.pollFrequency]

Wrap(context, m) == << context >> \o m

\* A wrapper that treats the "not reached" answer as an error.
waitForTransactionResult_ThrowOnUndefined(inner) ==
    IF inner.kind = "throw"
    THEN Throw(Wrap("Failed to wait for transaction", inner.message))
    ELSE IF inner.value = UndefinedValue
         THEN Throw(Wrap("Failed to wait for transaction", Message("not reached")))
         ELSE inner

\* A wrapper whose catch swallows the error.
waitForTransactionResult_Swallow(inner) ==
    IF inner.kind = "throw" THEN Return(UndefinedValue) ELSE inner

\* try { return await pollUntilState(...) } catch { throw new Error(...) }
waitForTransactionResult(inner) ==
    IF inner.kind = "throw"
    THEN Throw(Wrap("Failed to wait for transaction", inner.message))
    ELSE inner

\* The decision of the poll loop after the record `rec` answered poll number
\* `polls`: an outcome, or Pending when the loop goes on to sleep.
pollDecision(pa, rec, polls) ==
    IF rec.state \in pa.states THEN Return(rec)
    ELSE IF rec.state = pa.failState THEN Return(UndefinedValue)
    ELSE IF polls < pa.maxPolls THEN Pending
    ELSE Return(UndefinedValue)

GetTransactionCall(id) == [method |-> "getTransaction", id |-> id]

\* The record a query finds for `id`; its state is "none" for as long as the
\* relay has registered no submission under the identifier.
TransactionRecord(id) == [transactionID |-> id, state |-> relay[id]]

Queries(c) == Len(SelectSeq(tlog[c], LAMBDA t : t.method = "getTransaction"))


(***************************************************************************)
(* The three submission operations.                                        *)
(***************************************************************************)
P1 == [to |-> "0xCAFE", typeCode |-> "1", data |-> "0xdead", value |-> "0"]
P2 == [to |-> "0xBEEF", typeCode |-> "2", data |-> "0x", value |-> "5"]
S1 == [to |-> "0xCAFE", operation |-> 0, data |-> "0xdead", value |-> "0"]
S2 == [to |-> "0xBEEF", operation |-> 1, data |-> "0x", value |-> "5"]

ProxyBatches == {<< >>, << P1 >>, << P1, P2 >>}
SafeBatches == {<< >>, << S1 >>, << S2, S1 >>}
Metadata == {Undefined, "my-metadata"}

SubmitOps == {"executeProxyTransactions", "executeSafeTransactions", "deploySafe"}

\* What the relay may answer to a submission it registered under `id`:
\* every field of the answer may be missing.
Responses(id) ==
    { [transactionID |-> t, state |-> "STATE_NEW", hash |-> h,
       transactionHash |-> th] :
      t \in {id, Undefined}, h \in {Undefined, "0xrelayhash"},
      th \in {Undefined, "0xchainhash"} }

Reverse(q) == [i \in 1..Len(q) |-> q[Len(q) + 1 - i]]

\* Handing the calls to the transport in the opposite order.
executeProxyTransactionsCall_Reversed(transactions, metadata) ==
    [method |-> "executeProxyTransactions", transactions |-> Reverse(transactions),
     metadata |-> metadata]

\* this.client.executeProxyTransactions(transactions as any, metadata)
executeProxyTransactionsCall(transactions, metadata) ==
    [method |-> "executeProxyTransactions", transactions |-> transactions,
     metadata |-> metadata]

\* this.client.executeSafeTransactions(transactions as any, metadata)
executeSafeTransactionsCall(transactions, metadata) ==
    [method |-> "executeSafeTransactions", transactions |-> transactions,
     metadata |-> metadata]

\* this.client.deploySafe()
deploySafeCall == [method |-> "deploySafe"]

TransactionResponse(r) ==
    [transactionId |-> r.transactionID, state |-> r.state, hash |-> r.hash,
     transactionHash |-> r.transactionHash]

\* A catch clause that rethrows the transport's error as it came.
executeProxyTransactionsResult_RawError(inner) ==
    IF inner.kind = "throw" THEN Throw(inner.message)
    ELSE Return(TransactionResponse(inner.value))

\* A reshaping that insists on the relay hash being there.
executeProxyTransactionsResult_StrictHash(inner) ==
    IF inner.kind = "throw"
    THEN Throw(Wrap("Failed to execute proxy transactions", inner.message))
    ELSE IF inner.value.hash = Undefined
         THEN Throw(Wrap("Failed to execute proxy transactions", Message("missing hash")))
         ELSE Return(TransactionResponse(inner.value))

\* executeProxyTransactions: the return statement and the catch clause
executeProxyTransactionsResult(inner) ==
    IF inner.kind = "throw"
    THEN Throw(Wrap("Failed to execute proxy transactions", inner.message))
    ELSE Return([transactionId |-> inner.value.transactionID,
                 state |-> inner.value.state,
                 hash |-> inner.value.hash,
                 transactionHash |-> inner.value.transactionHash])

\* executeSafeTransactions: the return statement and the catch clause
executeSafeTransactionsResult(inner) ==
    IF inner.kind = "throw"
    THEN Throw(Wrap("Failed to execute safe transactions", inner.message))
    ELSE Return([transactionId |-> inner.value.transactionID,
                 state |-> inner.value.state,
                 hash |-> inner.value.hash,
                 transactionHash |-> inner.value.transactionHash])

\* A reshaping that takes the two hashes in each other's place.
deploySafeResult_SwappedHashes(inner) ==
    IF inner.kind = "throw"
    THEN Throw(Wrap("Failed to deploy safe", inner.message))
    ELSE Return([transactionId |-> inner.value.transactionID,
                 state |-> inner.value.state,
                 hash |-> inner.value.transactionHash,
                 transactionHash |-> inner.value.hash])

\* deploySafe: the return statement and the catch clause
deploySafeResult(inner) ==
    IF inner.kind = "throw"
    THEN Throw(Wrap("Failed to deploy safe", inner.message))
    ELSE Return([transactionId |-> inner.value.transactionID,
                 state |-> inner.value.state,
                 hash |-> inner.value.hash,
                 transactionHash |-> inner.value.transactionHash])

SubmitResult(o, inner) ==
    CASE o = "executeProxyTransactions" -> executeProxyTransactionsResult(inner)
      [] o = "executeSafeTransactions" -> executeSafeTransactionsResult(inner)
      [] OTHER -> deploySafeResult(inner)

(***************************************************************************)
(* The queries: getRelayerAddress, getTransaction, getTransactions,         *)
(* getNonce, getWalletAddress.                                             *)
(***************************************************************************)
UnknownTxId == "tx-unknown"
TransactionIdInputs == TxIds \cup {UnknownTxId}

\* Calling the transport without the identifier.
getTransactionCall_NoArgument(transactionId) ==
    [method |-> "getTransaction", id |-> Undefined]

\* this.client.getTransaction(transactionId)
getTransactionCall(transactionId) ==
    [method |-> "getTransaction", id |-> transactionId]

\* getTransaction: the return statement and the catch clause
getTransactionResult(inner) ==
    IF inner.kind = "throw"
    THEN Throw(Wrap("Failed to get transaction", inner.message))
    ELSE inner

\* What the transport answers to getTransaction(id): the entries the relay
\* holds for the id.
RelayTransactions(id) ==
    IF id \in TxIds /\ relay[id] # "none" THEN << TransactionRecord(id) >>
    ELSE << >>

\* Calling the deployment in the place of the listing.
getTransactionsCall_CopyPaste == [method |-> "deploySafe"]

\* this.client.getTransactions()
getTransactionsCall == [method |-> "getTransactions"]

\* getTransactions: the return statement and the catch clause
getTransactionsResult(inner) ==
    IF inner.kind = "throw"
    THEN Throw(Wrap("Failed to get transactions", inner.message))
    ELSE inner

RECURSIVE RecordsOf(_)
RecordsOf(ids) ==
    IF ids = {} THEN << >>
    ELSE LET id == CHOOSE i \in ids : TRUE
         IN  << TransactionRecord(id) >> \o RecordsOf(ids \ {id})

\* What the transport answers to getTransactions(): the records of the
\* submissions the relay registered for the client's identity.
RelayAllTransactions == RecordsOf({id \in TxIds : relay[id] # "none"})

\* this.client.getRelayAddress()
getRelayAddressCall == [method |-> "getRelayAddress"]

\* getRelayerAddress: the return statement and the catch clause
getRelayerAddressResult(inner) ==
    IF inner.kind = "throw"
    THEN Throw(Wrap("Failed to get relayer address", inner.message))
    ELSE Return(inner.value.address)

\* The address of the relay, as the transport reports it.
RelayAddress == "0xRelay"

SignerAddressInputs == {Undefined, "", "0xOther"}
SignerTypeInputs == {Absent, Some("SAFE")}
DefaultSignerType == "EOA"

MsgNoAddress ==
    "No wallet address available. Provide an address or ensure wallet is initialized."

TransportCall(t) == [kind |-> "call", call |-> t]

\* A getNonce without the check of the address.
getNonceStart_NoCheck(signerAddress, signerType, wallet) ==
    TransportCall([method |-> "getNonce",
                   address |-> IF Truthy(signerAddress) THEN signerAddress
                               ELSE wallet,
                   signerType |-> WithDefault(signerType, DefaultSignerType)])

\* A getNonce that falls back to the empty string and so passes its check.
getNonceStart_EmptyFallback(signerAddress, signerType, wallet) ==
    LET address == IF Truthy(signerAddress) THEN signerAddress
                   ELSE IF Truthy(wallet) THEN wallet ELSE ""
    IN  TransportCall([method |-> "getNonce", address |-> address,
                       signerType |-> WithDefault(signerType, DefaultSignerType)])

\* getNonce up to its await: the address it settles on, and either the
\* throw of the check or the transport call.
getNonceStart(signerAddress, signerType, wallet) ==
    LET address == IF Truthy(signerAddress) THEN signerAddress ELSE wallet
    IN  IF ~Truthy(address)
        THEN Throw(Message(MsgNoAddress))
        ELSE TransportCall([method |-> "getNonce", address |-> address,
                            signerType |-> WithDefault(signerType,
                                                       DefaultSignerType)])

\* getNonce: the return statement and the catch clause
getNonceResult(inner) ==
    IF inner.kind = "throw"
    THEN Throw(Wrap("Failed to get nonce", inner.message))
    ELSE Return(inner.value.nonce)

\* The address the client's transport signs with.
SigningAddress ==
    IF BackendKeyTruthy(config) THEN WalletAddressOf(config.backend.v.privateKey)
    ELSE SignerAddress

\* The relay's replay-protection counter of an address: the submissions it
\* has registered for it.
RelayNonce(address) ==
    IF address = SigningAddress
    THEN Cardinality({id \in TxIds : relay[id] # "none"})
    ELSE 0

\* getWalletAddress(): the cached address
getWalletAddressResult(wallet) == Return(wallet)

(***************************************************************************)
(* Inputs.                                                                 *)
(***************************************************************************)
\* desiredStates and failState as a caller passes them: both left out, both
\* given, or a desiredStates that contains the (default) fail state.
StateInputs == { [desiredStates |-> Absent, failState |-> Absent],
                 [desiredStates |-> Some({"STATE_MINED", "STATE_CONFIRMED"}),
                  failState |-> Some("STATE_EXECUTED")],
                 [desiredStates |-> Some({"STATE_FAILED", "STATE_CONFIRMED"}),
                  failState |-> Absent] }
MaxPollsInputs == {Some(n) : n \in 1..MaxPollsBound}
FrequencyInputs == {Absent}

WaitInputs == { [transactionId |-> id, desiredStates |-> s.desiredStates,
                 failState |-> s.failState, maxPolls |-> m, pollFrequency |-> q] :
                id \in TxIds, s \in StateInputs,
                m \in MaxPollsInputs, q \in FrequencyInputs }

(***************************************************************************)
(* Initial state: a configuration has been chosen, nothing has run.        *)
(***************************************************************************)
Init ==
    /\ config \in Configs
    /\ phase = "new"
    /\ ctorError = Undefined
    /\ client = NoClient
    /\ ctorLog = << >>
    /\ walletAddress = Undefined
    /\ addrPromise = "none"
    /\ relay = [id \in TxIds |-> "none"]
    /\ op = [c \in Callers |-> "idle"]
    /\ args = [c \in Callers |-> Absent]
    /\ pc = [c \in Callers |-> "idle"]
    /\ tlog = [c \in Callers |-> << >>]
    /\ obs = [c \in Callers |-> << >>]
    /\ waits = [c \in Callers |-> 0]
    /\ terr = [c \in Callers |-> FALSE]
    /\ cancel = [c \in Callers |-> FALSE]
    /\ result = [c \in Callers |-> Pending]

callVars == << op, args, pc, tlog, obs, waits, terr, cancel, result >>
objVars == << config, phase, ctorError, client, ctorLog, walletAddress, addrPromise >>

\* new RelayerClient(config)
Construct ==
    /\ phase = "new"
    /\ LET r == constructor(config)
       IN  /\ phase' = IF r.threw THEN "failed" ELSE "constructed"
           /\ ctorError' = r.error
           /\ client' = r.client
           /\ ctorLog' = r.calls
           /\ walletAddress' = r.walletAddress
           /\ addrPromise' = r.addrPromise
    /\ UNCHANGED << config, relay, callVars >>

\* signer.getAddress().then(addr => { this.walletAddress = addr })
ResolveAddress ==
    /\ addrPromise = "pending"
    /\ addrPromise' = "resolved"
    /\ walletAddress' = SignerAddress
    /\ UNCHANGED << config, phase, ctorError, client, ctorLog, relay, callVars >>

\* the promise rejects: the callback never runs
RejectAddress ==
    /\ addrPromise = "pending"
    /\ addrPromise' = "rejected"
    /\ UNCHANGED << config, phase, ctorError, client, ctorLog, walletAddress, relay,
                    callVars >>

\* A caller may start an operation on a constructed client when it has none
\* in flight.
CanStart(c) == phase = "constructed" /\ pc[c] \in {"idle", "done"}

StartCall(c, o, a, first, log) ==
    /\ op' = [op EXCEPT ![c] = o]
    /\ args' = [args EXCEPT ![c] = a]
    /\ pc' = [pc EXCEPT ![c] = first]
    /\ tlog' = [tlog EXCEPT ![c] = log]
    /\ obs' = [obs EXCEPT ![c] = << >>]
    /\ waits' = [waits EXCEPT ![c] = 0]
    /\ terr' = [terr EXCEPT ![c] = FALSE]
    /\ cancel' = [cancel EXCEPT ![c] = FALSE]
    /\ result' = [result EXCEPT ![c] = Pending]

\* executeProxyTransactions(transactions, metadata?) up to its await
ExecuteProxyTransactions(c) ==
    /\ CanStart(c)
    /\ \E t \in ProxyBatches, m \in Metadata :
        StartCall(c, "executeProxyTransactions",
                  [transactions |-> t, metadata |-> m], "await",
                  << executeProxyTransactionsCall(t, m) >>)
    /\ UNCHANGED << objVars, relay >>

\* executeSafeTransactions(transactions, metadata?) up to its await
ExecuteSafeTransactions(c) ==
    /\ CanStart(c)
    /\ \E t \in SafeBatches, m \in Metadata :
        StartCall(c, "executeSafeTransactions",
                  [transactions |-> t, metadata |-> m], "await",
                  << executeSafeTransactionsCall(t, m) >>)
    /\ UNCHANGED << objVars, relay >>

\* deploySafe() up to its await
DeploySafe(c) ==
    /\ CanStart(c)
    /\ StartCall(c, "deploySafe", Absent, "await", << deploySafeCall >>)
    /\ UNCHANGED << objVars, relay >>

\* The relay registers the submission and answers; the operation returns
\* the reshaped answer.
SubmitAnswer(c) ==
    /\ op[c] \in SubmitOps /\ pc[c] = "await"
    /\ \E id \in TxIds :
        /\ relay[id] = "none"
        /\ relay' = [relay EXCEPT ![id] = "STATE_NEW"]
        /\ \E r \in Responses(id) :
            /\ obs' = [obs EXCEPT ![c] = << r >>]
            /\ result' = [result EXCEPT ![c] = SubmitResult(op[c], Return(r))]
    /\ pc' = [pc EXCEPT ![c] = "done"]
    /\ UNCHANGED << objVars, op, args, tlog, waits, terr, cancel >>

\* A catch clause that submits once more instead of giving up.
SubmitFails_Retry(c) ==
    /\ op[c] \in SubmitOps /\ pc[c] = "await"
    /\ Len(tlog[c]) < 3
    /\ tlog' = [tlog EXCEPT ![c] = Append(@, @[1])]
    /\ terr' = [terr EXCEPT ![c] = TRUE]
    /\ UNCHANGED << objVars, relay, op, args, pc, obs, waits, cancel, result >>

\* The transport call of a submission throws; the catch clause rethrows.
SubmitFails(c) ==
    /\ op[c] \in SubmitOps /\ pc[c] = "await"
    /\ \E m \in TransportMessages :
        result' = [result EXCEPT ![c] = SubmitResult(op[c], Throw(m))]
    /\ terr' = [terr EXCEPT ![c] = TRUE]
    /\ pc' = [pc EXCEPT ![c] = "done"]
    /\ UNCHANGED << objVars, relay, op, args, tlog, obs, waits, cancel >>

\* A call that ends before any await.
FinishCall(c, o, a, res) ==
    /\ op' = [op EXCEPT ![c] = o]
    /\ args' = [args EXCEPT ![c] = a]
    /\ pc' = [pc EXCEPT ![c] = "done"]
    /\ tlog' = [tlog EXCEPT ![c] = << >>]
    /\ obs' = [obs EXCEPT ![c] = << >>]
    /\ waits' = [waits EXCEPT ![c] = 0]
    /\ terr' = [terr EXCEPT ![c] = FALSE]
    /\ cancel' = [cancel EXCEPT ![c] = FALSE]
    /\ result' = [result EXCEPT ![c] = res]

\* getTransaction(transactionId) up to its await
GetTransaction(c) ==
    /\ CanStart(c)
    /\ \E id \in TransactionIdInputs :
        StartCall(c, "getTransaction", [transactionId |-> id], "await",
                  << getTransactionCall(id) >>)
    /\ UNCHANGED << objVars, relay >>

\* The transport answers getTransaction; the operation returns the answer.
GetTransactionAnswer(c) ==
    /\ op[c] = "getTransaction" /\ pc[c] = "await"
    /\ LET r == RelayTransactions(tlog[c][1].id)
       IN  /\ obs' = [obs EXCEPT ![c] = << r >>]
           /\ result' = [result EXCEPT ![c] = getTransactionResult(Return(r))]
    /\ pc' = [pc EXCEPT ![c] = "done"]
    /\ UNCHANGED << objVars, relay, op, args, tlog, waits, terr, cancel >>

\* The transport call of getTransaction throws; the catch clause rethrows.
GetTransactionFails(c) ==
    /\ op[c] = "getTransaction" /\ pc[c] = "await"
    /\ \E m \in TransportMessages :
        result' = [result EXCEPT ![c] = getTransactionResult(Throw(m))]
    /\ terr' = [terr EXCEPT ![c] = TRUE]
    /\ pc' = [pc EXCEPT ![c] = "done"]
    /\ UNCHANGED << objVars, relay, op, args, tlog, obs, waits, cancel >>

\* getTransactions() up to its await
GetTransactions(c) ==
    /\ CanStart(c)
    /\ StartCall(c, "getTransactions", Absent, "await", << getTransactionsCall >>)
    /\ UNCHANGED << objVars, relay >>

\* The transport answers getTransactions; the operation returns the answer.
GetTransactionsAnswer(c) ==
    /\ op[c] = "getTransactions" /\ pc[c] = "await"
    /\ LET r == RelayAllTransactions
       IN  /\ obs' = [obs EXCEPT ![c] = << r >>]
           /\ result' = [result EXCEPT ![c] = getTransactionsResult(Return(r))]
    /\ pc' = [pc EXCEPT ![c] = "done"]
    /\ UNCHANGED << objVars, relay, op, args, tlog, waits, terr, cancel >>

\* The transport call of getTransactions throws; the catch clause rethrows.
GetTransactionsFails(c) ==
    /\ op[c] = "getTransactions" /\ pc[c] = "await"
    /\ \E m \in TransportMessages :
        result' = [result EXCEPT ![c] = getTransactionsResult(Throw(m))]
    /\ terr' = [terr EXCEPT ![c] = TRUE]
    /\ pc' = [pc EXCEPT ![c] = "done"]
    /\ UNCHANGED << objVars, relay, op, args, tlog, obs, waits, cancel >>

\* getRelayerAddress() up to its await
GetRelayerAddress(c) ==
    /\ CanStart(c)
    /\ StartCall(c, "getRelayerAddress", Absent, "await", << getRelayAddressCall >>)
    /\ UNCHANGED << objVars, relay >>

\* The transport answers getRelayAddress; the operation returns the address.
GetRelayerAddressAnswer(c) ==
    /\ op[c] = "getRelayerAddress" /\ pc[c] = "await"
    /\ LET r == [address |-> RelayAddress]
       IN  /\ obs' = [obs EXCEPT ![c] = << r >>]
           /\ result' = [result EXCEPT ![c] = getRelayerAddressResult(Return(r))]
    /\ pc' = [pc EXCEPT ![c] = "done"]
    /\ UNCHANGED << objVars, relay, op, args, tlog, waits, terr, cancel >>

\* The transport call of getRelayerAddress throws; the catch clause rethrows.
GetRelayerAddressFails(c) ==
    /\ op[c] = "getRelayerAddress" /\ pc[c] = "await"
    /\ \E m \in TransportMessages :
        result' = [result EXCEPT ![c] = getRelayerAddressResult(Throw(m))]
    /\ terr' = [terr EXCEPT ![c] = TRUE]
    /\ pc' = [pc EXCEPT ![c] = "done"]
    /\ UNCHANGED << objVars, relay, op, args, tlog, obs, waits, cancel >>

\* getNonce(signerAddress?, signerType?) up to its await, or to the throw
\* of its address check.
GetNonce(c) ==
    /\ CanStart(c)
    /\ \E a \in SignerAddressInputs, t \in SignerTypeInputs :
        LET start == getNonceStart(a, t, walletAddress)
            given == [signerAddress |-> a, signerType |-> t]
        IN  IF start.kind = "throw"
            THEN FinishCall(c, "getNonce", given, getNonceResult(start))
            ELSE StartCall(c, "getNonce", given, "await", << start.call >>)
    /\ UNCHANGED << objVars, relay >>

\* The transport answers getNonce; the operation returns the nonce.
GetNonceAnswer(c) ==
    /\ op[c] = "getNonce" /\ pc[c] = "await"
    /\ LET r == [nonce |-> RelayNonce(tlog[c][1].address)]
       IN  /\ obs' = [obs EXCEPT ![c] = << r >>]
           /\ result' = [result EXCEPT ![c] = getNonceResult(Return(r))]
    /\ pc' = [pc EXCEPT ![c] = "done"]
    /\ UNCHANGED << objVars, relay, op, args, tlog, waits, terr, cancel >>

\* The transport call of getNonce throws; the catch clause rethrows.
GetNonceFails(c) ==
    /\ op[c] = "getNonce" /\ pc[c] = "await"
    /\ \E m \in TransportMessages :
        result' = [result EXCEPT ![c] = getNonceResult(Throw(m))]
    /\ terr' = [terr EXCEPT ![c] = TRUE]
    /\ pc' = [pc EXCEPT ![c] = "done"]
    /\ UNCHANGED << objVars, relay, op, args, tlog, obs, waits, cancel >>

\* getWalletAddress()
GetWalletAddress(c) ==
    /\ CanStart(c)
    /\ FinishCall(c, "getWalletAddress", Absent,
                  getWalletAddressResult(walletAddress))
    /\ UNCHANGED << objVars, relay >>

\* waitForTransaction(id, desiredStates?, failState?, maxPolls?, pollFrequency?)
\* up to the first query of the poll loop.
WaitForTransactionWith(c, a) ==
    /\ CanStart(c)
    /\ StartCall(c, "waitForTransaction", a, "query",
                 << GetTransactionCall(
                      pollUntilStateArgs(WaitParams(a)).transactionId) >>)
    /\ UNCHANGED << objVars, relay >>

WaitForTransaction(c) == \E a \in WaitInputs : WaitForTransactionWith(c, a)

\* The transport answers the query of the poll loop with the current record.
PollAnswer(c) ==
    /\ op[c] = "waitForTransaction" /\ pc[c] = "query"
    /\ LET pa == pollUntilStateArgs(WaitParams(args[c]))
           rec == TransactionRecord(pa.transactionId)
           d == pollDecision(pa, rec, Len(obs[c]) + 1)
       IN  /\ obs' = [obs EXCEPT ![c] = Append(@, rec)]
           /\ IF d = Pending
              THEN /\ pc' = [pc EXCEPT ![c] = "sleep"]
                   /\ UNCHANGED result
              ELSE /\ pc' = [pc EXCEPT ![c] = "done"]
                   /\ result' = [result EXCEPT ![c] = waitForTransactionResult(d)]
    /\ UNCHANGED << objVars, relay, op, args, tlog, waits, terr, cancel >>

\* The query of the poll loop fails in the transport.
PollFails(c) ==
    /\ op[c] = "waitForTransaction" /\ pc[c] = "query"
    /\ \E m \in TransportMessages :
        result' = [result EXCEPT ![c] = waitForTransactionResult(Throw(m))]
    /\ terr' = [terr EXCEPT ![c] = TRUE]
    /\ pc' = [pc EXCEPT ![c] = "done"]
    /\ UNCHANGED << objVars, relay, op, args, tlog, obs, waits, cancel >>

\* The sleep between two polls ends and the next query is issued.
PollSleep(c) ==
    /\ op[c] = "waitForTransaction" /\ pc[c] = "sleep"
    /\ waits' = [waits EXCEPT ![c] = @ + 1]
    /\ tlog' = [tlog EXCEPT ![c] = Append(@, GetTransactionCall(
                    pollUntilStateArgs(WaitParams(args[c])).transactionId))]
    /\ pc' = [pc EXCEPT ![c] = "query"]
    /\ UNCHANGED << objVars, relay, op, args, obs, terr, cancel, result >>

\* An external cancellation signal is raised while the loop sleeps.
\* waitForTransaction takes no signal and hands none to the loop.
Cancel(c) ==
    /\ op[c] = "waitForTransaction" /\ pc[c] = "sleep" /\ ~cancel[c]
    /\ cancel' = [cancel EXCEPT ![c] = TRUE]
    /\ UNCHANGED << objVars, relay, op, args, pc, tlog, obs, waits, terr, result >>

\* The relay moves a transaction forward.
RelayAdvanceOf(id) ==
    /\ \E s \in States :
        /\ relay[id] \in States \ TerminalStates
        /\ s = "STATE_FAILED" \/ StateRank(s) > StateRank(relay[id])
        /\ relay' = [relay EXCEPT ![id] = s]
    /\ UNCHANGED << objVars, callVars >>

RelayAdvance == \E id \in TxIds : RelayAdvanceOf(id)

Next ==
    \/ Construct
    \/ ResolveAddress
    \/ RejectAddress
    \/ RelayAdvance
    \/ \E c \in Callers :
        \/ ExecuteProxyTransactions(c)
        \/ ExecuteSafeTransactions(c)
        \/ DeploySafe(c)
        \/ SubmitAnswer(c)
        \/ SubmitFails(c)
        \/ GetTransaction(c)
        \/ GetTransactionAnswer(c)
        \/ GetTransactionFails(c)
        \/ GetRelayerAddress(c)
        \/ GetRelayerAddressAnswer(c)
        \/ GetRelayerAddressFails(c)
        \/ GetTransactions(c)
        \/ GetTransactionsAnswer(c)
        \/ GetTransactionsFails(c)
        \/ GetNonce(c)
        \/ GetNonceAnswer(c)
        \/ GetNonceFails(c)
        \/ GetWalletAddress(c)
        \/ WaitForTransaction(c)
        \/ PollAnswer(c)
        \/ PollFails(c)
        \/ PollSleep(c)
        \/ Cancel(c)

Spec == Init /\ [][Next]_vars

\* Fairness of the poll loop: every query the loop issues is eventually
\* answered (with a record or an error) and every sleep eventually ends.
FairSpec ==
    /\ Spec
    /\ \A c \in Callers :
        /\ WF_vars(PollAnswer(c) \/ PollFails(c))
        /\ WF_vars(PollSleep(c))

(***************************************************************************)
(* Two callers that wait at the same time, each for its own transaction,   *)
(* on one backend client whose relay has registered both submissions.      *)
(***************************************************************************)
Pollers == {"p", "q"}
PollerTx(c) == IF c = "p" THEN "tx-1" ELSE "tx-2"
PollerTxIds == {PollerTx(c) : c \in Pollers}
PollersConfig == Config(Some([privateKey |-> "0xkey1"]), Absent, DefaultOptions)

\* The smallest and the largest budget, with the default states or with the
\* caller's own.
PollerStateInputs ==
    { s \in StateInputs : s.desiredStates.present = s.failState.present }
PollerMaxPollsInputs == {Some(1), Some(MaxPollsBound)}

PollerInputs(c) ==
    { [transactionId |-> PollerTx(c), desiredStates |-> s.desiredStates,
       failState |-> s.failState, maxPolls |-> m, pollFrequency |-> q] :
      s \in PollerStateInputs, m \in PollerMaxPollsInputs, q \in FrequencyInputs }

PollersInit ==
    /\ config = PollersConfig
    /\ phase = "constructed"
    /\ ctorError = constructor(PollersConfig).error
    /\ client = constructor(PollersConfig).client
    /\ ctorLog = constructor(PollersConfig).calls
    /\ walletAddress = constructor(PollersConfig).walletAddress
    /\ addrPromise = constructor(PollersConfig).addrPromise
    /\ relay = [id \in PollerTxIds |-> "STATE_NEW"]
    /\ op = [c \in Pollers |-> "idle"]
    /\ args = [c \in Pollers |-> Absent]
    /\ pc = [c \in Pollers |-> "idle"]
    /\ tlog = [c \in Pollers |-> << >>]
    /\ obs = [c \in Pollers |-> << >>]
    /\ waits = [c \in Pollers |-> 0]
    /\ terr = [c \in Pollers |-> FALSE]
    /\ cancel = [c \in Pollers |-> FALSE]
    /\ result = [c \in Pollers |-> Pending]

\* Each caller makes one waitForTransaction call.
PollerWaits(c) ==
    /\ pc[c] = "idle"
    /\ \E a \in PollerInputs(c) : WaitForTransactionWith(c, a)

PollersNext ==
    \/ \E id \in PollerTxIds : RelayAdvanceOf(id)
    \/ \E c \in Pollers :
        \/ PollerWaits(c)
        \/ PollAnswer(c)
        \/ PollFails(c)
        \/ PollSleep(c)

PollersSpec == PollersInit /\ [][PollersNext]_vars

(***************************************************************************)
(* One caller that waits for a registered transaction with every optional  *)
(* argument left out, on a constructed backend client.                     *)
(***************************************************************************)
OnlyIdInputs ==
    { [transactionId |-> id, desiredStates |-> Absent, failState |-> Absent,
       maxPolls |-> Absent, pollFrequency |-> Absent] : id \in TxIds }

DefaultsInit ==
    /\ config = PollersConfig
    /\ phase = "constructed"
    /\ ctorError = constructor(PollersConfig).error
    /\ client = constructor(PollersConfig).client
    /\ ctorLog = constructor(PollersConfig).calls
    /\ walletAddress = constructor(PollersConfig).walletAddress
    /\ addrPromise = constructor(PollersConfig).addrPromise
    /\ relay = [id \in TxIds |-> "STATE_NEW"]
    /\ op = [c \in Callers |-> "idle"]
    /\ args = [c \in Callers |-> Absent]
    /\ pc = [c \in Callers |-> "idle"]
    /\ tlog = [c \in Callers |-> << >>]
    /\ obs = [c \in Callers |-> << >>]
    /\ waits = [c \in Callers |-> 0]
    /\ terr = [c \in Callers |-> FALSE]
    /\ cancel = [c \in Callers |-> FALSE]
    /\ result = [c \in Callers |-> Pending]

\* waitForTransaction(transactionId)
WaitWithDefaults(c) == \E a \in OnlyIdInputs : WaitForTransactionWith(c, a)

DefaultsNext ==
    \/ RelayAdvance
    \/ \E c \in Callers :
        \/ WaitWithDefaults(c)
        \/ PollAnswer(c)
        \/ PollFails(c)
        \/ PollSleep(c)

DefaultsSpec == DefaultsInit /\ [][DefaultsNext]_vars

(***************************************************************************)
(* Properties.                                                             *)
(***************************************************************************)
Waiting(c) == op[c] = "waitForTransaction"
Params(c) == WaitParams(args[c])
NonTerminalFor(c, rec) ==
    rec.state \notin Params(c).desiredStates /\ rec.state # Params(c).failState
ObsStates(c) == [i \in 1..Len(obs[c]) |-> obs[c][i].state]

ConfigurationErrors == {MsgNoMode, MsgInvalidConfig}

\* C1: a configuration with neither backend nor frontend makes the
\* constructor throw its configuration error; no instance exists afterwards
\* (no operation ever starts) and no transport client was created or called.
C1_NoModeFailsEagerly ==
    (~config.backend.present /\ ~config.frontend.present /\ phase # "new")
        => /\ phase = "failed"
           /\ ctorError \in ConfigurationErrors
           /\ client = NoClient
           /\ \A c \in Callers : op[c] = "idle" /\ tlog[c] = << >>

C1_Witness ==
    /\ ~config.backend.present /\ ~config.frontend.present
    /\ config.auth.present
    /\ phase = "failed" /\ ctorError = MsgNoMode

\* C2: when poll k is the first to observe a desired state and no earlier
\* poll observed the fail state, waitForTransaction has returned exactly the
\* record of poll k, after k queries and k-1 sleeps.
C2_ReturnsFirstDesired ==
    \A c \in Callers : Waiting(c) =>
        \A k \in 1..Len(obs[c]) :
            ( /\ obs[c][k].state \in Params(c).desiredStates
              /\ \A j \in 1..(k-1) : NonTerminalFor(c, obs[c][j]) )
            => /\ pc[c] = "done"
               /\ result[c] = Return(obs[c][k])
               /\ Len(obs[c]) = k
               /\ Queries(c) = k
               /\ waits[c] = k - 1

C2_Witness ==
    \E c \in Callers :
        /\ Waiting(c) /\ pc[c] = "done"
        /\ ~args[c].desiredStates.present
        /\ ObsStates(c) = << "STATE_NEW", "STATE_MINED", "STATE_CONFIRMED" >>
        /\ result[c] = Return([transactionID |-> "tx-1", state |-> "STATE_CONFIRMED"])
        /\ Queries(c) = 3 /\ waits[c] = 2

\* C3: a poll that observes the fail state (not a desired state) ends the
\* call at that poll with the "not reached" answer: no throw, no further
\* query.
C3_FailStateEndsPoll ==
    \A c \in Callers : Waiting(c) =>
        \A k \in 1..Len(obs[c]) :
            ( /\ obs[c][k].state = Params(c).failState
              /\ obs[c][k].state \notin Params(c).desiredStates
              /\ \A j \in 1..(k-1) : NonTerminalFor(c, obs[c][j]) )
            => /\ pc[c] = "done"
               /\ result[c] = Return(UndefinedValue)
               /\ Len(obs[c]) = k
               /\ Queries(c) = k

C3_Witness ==
    \E c \in Callers :
        /\ Waiting(c) /\ pc[c] = "done"
        /\ Params(c).maxPolls = 3
        /\ ObsStates(c) = << "STATE_FAILED" >>
        /\ Queries(c) = 1
        /\ result[c] = Return(UndefinedValue)

\* C4: with maxPolls = n >= 1, against answers that are never desired and
\* never the fail state (and no transport error), the call makes exactly n
\* queries and then returns the "not reached" answer.
C4_BudgetExhaustion ==
    \A c \in Callers :
        ( /\ Waiting(c) /\ ~terr[c]
          /\ \A j \in 1..Len(obs[c]) : NonTerminalFor(c, obs[c][j]) )
        => /\ Len(obs[c]) <= Params(c).maxPolls
           /\ (pc[c] = "done") <=> (Len(obs[c]) = Params(c).maxPolls)
           /\ pc[c] = "done" => /\ Queries(c) = Params(c).maxPolls
                                /\ result[c] = Return(UndefinedValue)

C4_Witness ==
    \E c \in Callers :
        /\ Waiting(c) /\ pc[c] = "done"
        /\ Params(c).maxPolls = 3
        /\ ObsStates(c) = << "STATE_NEW", "STATE_NEW", "STATE_NEW" >>
        /\ Queries(c) = 3
        /\ result[c] = Return(UndefinedValue)

\* C5: under the fairness of FairSpec every waitForTransaction call
\* eventually completes, and the number of status queries it has issued
\* never exceeds its maxPolls.
C5_BoundedTermination ==
    /\ [](\A c \in Callers : Waiting(c) => Queries(c) <= Params(c).maxPolls)
    /\ \A c \in Callers :
        (Waiting(c) /\ pc[c] \in {"query", "sleep"}) ~> (pc[c] = "done")

C5_Witness ==
    \E c \in Callers :
        /\ Waiting(c) /\ pc[c] = "done"
        /\ Params(c).maxPolls = MaxPollsBound
        /\ Queries(c) = MaxPollsBound
        /\ Len(obs[c]) = MaxPollsBound
        /\ obs[c][MaxPollsBound].state = "STATE_EXECUTED"

\* C6: once a cancellation signal has been raised during a sleep of the
\* poll loop, the call issues no further query and ends by throwing.
C6_CancelInterruptsWait ==
    \A c \in Callers : (Waiting(c) /\ cancel[c]) =>
        /\ pc[c] # "query"
        /\ pc[c] = "done" => result[c].kind = "throw"

\* C7: a record returned by waitForTransaction has a state in desiredStates;
\* the fail state and an exhausted budget both give the non-throwing "not
\* reached" answer; the call throws only after a transport error or a
\* cancellation.
C7_RecordIsDesired ==
    \A c \in Callers : (Waiting(c) /\ pc[c] = "done") =>
        /\ (result[c].kind = "return" /\ result[c].value # UndefinedValue)
              => result[c].value.state \in Params(c).desiredStates
        /\ result[c].kind = "throw" => (terr[c] \/ cancel[c])
        /\ ( /\ ~terr[c]
             /\ obs[c][Len(obs[c])].state \notin Params(c).desiredStates )
              => result[c] = Return(UndefinedValue)

C7_Witness ==
    \E c \in Callers :
        /\ Waiting(c) /\ pc[c] = "done"
        /\ result[c].kind = "return" /\ result[c].value # UndefinedValue
        /\ result[c].value.state = "STATE_MINED"
        /\ Len(obs[c]) = 2

\* C8: a transport error raised by a status query of the poll loop ends the
\* call at that poll with a thrown error carrying the transport's message;
\* no query follows it and it is not turned into the "not reached" answer.
C8_TransportErrorPropagates ==
    \A c \in Callers : (Waiting(c) /\ terr[c]) =>
        /\ pc[c] = "done"
        /\ \E m \in TransportMessages :
              result[c] = Throw(Wrap("Failed to wait for transaction", m))
        /\ Queries(c) = Len(obs[c]) + 1

C8_Witness ==
    \E c \in Callers :
        /\ Waiting(c) /\ terr[c] /\ pc[c] = "done"
        /\ Len(obs[c]) = 2 /\ Queries(c) = 3
        /\ result[c].kind = "throw"

\* C9: executeProxyTransactions with an empty call list is rejected with an
\* error and never reaches the transport.
C9_EmptyBatchRejected ==
    \A c \in Callers :
        (op[c] = "executeProxyTransactions" /\ args[c].transactions = << >>)
        => /\ tlog[c] = << >>
           /\ pc[c] = "done" => result[c].kind = "throw"

\* C10: no submission operation returns a record whose identifier is absent
\* or empty; a relay answer without the identifier makes the call throw.
C10_NoRecordWithoutId ==
    \A c \in Callers :
        (op[c] \in SubmitOps /\ pc[c] = "done" /\ result[c].kind = "return")
        => Truthy(result[c].value.transactionId)

Submitting(c) == op[c] \in SubmitOps
SubmitContext(o) ==
    CASE o = "executeProxyTransactions" -> "Failed to execute proxy transactions"
      [] o = "executeSafeTransactions" -> "Failed to execute safe transactions"
      [] OTHER -> "Failed to deploy safe"

\* C11: when the transport call of a submission fails, the submission throws
\* an error that carries the transport's message under the operation's
\* context (never the bare transport message) and returns no record.
C11_RejectionIsWrapped ==
    \A c \in Callers : (Submitting(c) /\ terr[c]) =>
        /\ pc[c] = "done"
        /\ result[c].kind = "throw"
        /\ \E m \in TransportMessages :
              result[c].message = Wrap(SubmitContext(op[c]), m)
        /\ result[c].message \notin TransportMessages

C11_Witness ==
    \E c \in Callers :
        /\ op[c] = "executeSafeTransactions" /\ terr[c] /\ pc[c] = "done"
        /\ args[c].transactions = << S2, S1 >>
        /\ result[c] = Throw(<< "Failed to execute safe transactions",
                                "request failed" >>)

\* C12: a submission issues exactly one transport submission call, whether
\* that call is answered or fails.
C12_NoRetry ==
    \A c \in Callers : Submitting(c) =>
        /\ Len(tlog[c]) = 1
        /\ tlog[c][1].method = op[c]

C12_Witness ==
    \E c \in Callers :
        /\ op[c] = "deploySafe" /\ terr[c] /\ pc[c] = "done"
        /\ tlog[c] = << [method |-> "deploySafe"] >>

\* C13: the transport receives the caller's call sequence and metadata
\* unchanged: same length, same order, same fields.
C13_CallsPassedThrough ==
    \A c \in Callers :
        (op[c] \in {"executeProxyTransactions", "executeSafeTransactions"}) =>
            /\ Len(tlog[c]) >= 1
            /\ \A i \in 1..Len(tlog[c]) :
                /\ tlog[c][i].transactions = args[c].transactions
                /\ tlog[c][i].metadata = args[c].metadata

C13_Witness ==
    \E c \in Callers :
        /\ op[c] = "executeProxyTransactions"
        /\ args[c] = [transactions |-> << P1, P2 >>, metadata |-> "my-metadata"]
        /\ tlog[c][1].transactions = << P1, P2 >>
        /\ tlog[c][1].metadata = "my-metadata"

\* C14: a relay answer to a submission never makes the call throw because
\* its hash or transactionHash is missing; the missing field is empty in
\* the returned record.
C14_AbsentHashesStayEmpty ==
    \A c \in Callers : (Submitting(c) /\ pc[c] = "done" /\ ~terr[c]) =>
        /\ Len(obs[c]) = 1
        /\ result[c].kind = "return"
        /\ obs[c][1].hash = Undefined => ~Truthy(result[c].value.hash)
        /\ obs[c][1].transactionHash = Undefined
              => ~Truthy(result[c].value.transactionHash)

C14_Witness ==
    \E c \in Callers :
        /\ op[c] = "executeProxyTransactions" /\ pc[c] = "done"
        /\ obs[c] = << [transactionID |-> "tx-1", state |-> "STATE_NEW",
                        hash |-> Undefined, transactionHash |-> Undefined] >>
        /\ result[c] = Return([transactionId |-> "tx-1", state |-> "STATE_NEW",
                               hash |-> Undefined, transactionHash |-> Undefined])

\* C15: whatever the submission operation, the record returned for a relay
\* answer is the same: the answer's transactionID, state, hash and
\* transactionHash, each in its own field.
C15_SameNormalization ==
    \A c \in Callers : (Submitting(c) /\ pc[c] = "done" /\ ~terr[c]) =>
        result[c] = Return([transactionId |-> obs[c][1].transactionID,
                            state |-> obs[c][1].state,
                            hash |-> obs[c][1].hash,
                            transactionHash |-> obs[c][1].transactionHash])

C15_Witness ==
    \E c \in Callers :
        /\ op[c] = "deploySafe" /\ pc[c] = "done"
        /\ result[c] = Return([transactionId |-> "tx-1", state |-> "STATE_NEW",
                               hash |-> "0xrelayhash",
                               transactionHash |-> Undefined])

\* C16: getTransaction for an identifier the relay has registered (the one a
\* successful submission returned) yields records, each with that identifier
\* and a state of the documented vocabulary.
C16_RoundTrip ==
    \A c \in Callers :
        ( /\ op[c] = "getTransaction" /\ pc[c] = "done" /\ ~terr[c]
          /\ args[c].transactionId \in TxIds
          /\ relay[args[c].transactionId] # "none" )
        => /\ result[c].kind = "return"
           /\ Len(result[c].value) >= 1
           /\ \A i \in 1..Len(result[c].value) :
                /\ result[c].value[i].transactionID = args[c].transactionId
                /\ result[c].value[i].state \in States

C16_Witness ==
    \E c \in Callers :
        /\ op[c] = "getTransaction" /\ pc[c] = "done"
        /\ relay["tx-1"] = "STATE_NEW"
        /\ result[c] = Return(<< [transactionID |-> "tx-1",
                                  state |-> "STATE_NEW"] >>)

FrontendMode == ~BackendKeyTruthy(config) /\ FrontendSignerTruthy(config)
NoAddressAvailable == Throw(<< "Failed to get nonce", MsgNoAddress >>)
CallChanged(c) ==
    << op[c], args[c], pc[c], tlog[c], result[c] >>
        # << op'[c], args'[c], pc'[c], tlog'[c], result'[c] >>

\* C17: in frontend mode a getNonce() without an address, made while the
\* signer's address is unresolved, fails with the no-address error, which is
\* no wrapped transport failure, and makes no transport call; made after the
\* resolution it asks the relay for the resolved address and returns the
\* nonce the relay reports.
C17_NonceNeedsAddress ==
    /\ [](\A c \in Callers :
            (FrontendMode /\ op[c] = "getNonce"
                /\ args[c].signerAddress = Undefined) =>
                /\ walletAddress = Undefined =>
                      /\ pc[c] = "done" /\ tlog[c] = << >>
                      /\ result[c] = NoAddressAvailable
                /\ tlog[c] = << >> =>
                      /\ result[c] = NoAddressAvailable
                      /\ \A m \in TransportMessages :
                            result[c].message # Wrap("Failed to get nonce", m)
                /\ tlog[c] # << >> =>
                      /\ walletAddress = SignerAddress
                      /\ tlog[c] = << [method |-> "getNonce",
                                       address |-> SignerAddress,
                                       signerType |-> WithDefault(
                                           args[c].signerType, "EOA")] >>
                      /\ (pc[c] = "done" /\ ~terr[c]) =>
                            result[c] = Return(obs[c][1].nonce))
    /\ [][\A c \in Callers :
            ( /\ FrontendMode /\ walletAddress # Undefined
              /\ pc[c] \in {"idle", "done"} /\ CallChanged(c)
              /\ op'[c] = "getNonce" )
            => /\ pc'[c] = "await"
               /\ tlog'[c][1].address \in {walletAddress, "0xOther"}]_vars

C17_Witness ==
    \E c \in Callers :
        /\ FrontendMode /\ addrPromise = "pending" /\ walletAddress = Undefined
        /\ op[c] = "getNonce" /\ pc[c] = "done"
        /\ args[c].signerAddress = Undefined
        /\ tlog[c] = << >>
        /\ result[c] = NoAddressAvailable

\* C18: walletAddress is written at most once, by the constructor (backend
\* key) or by the resolution callback, never by a public operation; while the
\* resolution is pending or once it has failed the address is unresolved, and
\* getWalletAddress returns unresolved before the write and the one resolved
\* address after it.
C18_SetOnce ==
    /\ [][ /\ walletAddress # Undefined => walletAddress' = walletAddress
           /\ walletAddress' # walletAddress =>
                \/ phase = "new" /\ phase' = "constructed"
                     /\ BackendKeyTruthy(config)
                \/ addrPromise = "pending" /\ addrPromise' = "resolved"
           /\ (\E c \in Callers : CallChanged(c)) =>
                walletAddress' = walletAddress
           /\ \A c \in Callers :
                (pc[c] \in {"idle", "done"} /\ CallChanged(c)
                    /\ op'[c] = "getWalletAddress")
                => result'[c] = Return(walletAddress) ]_vars
    /\ [](addrPromise \in {"pending", "rejected"} => walletAddress = Undefined)
    /\ [](\A c \in Callers : op[c] = "getWalletAddress" =>
            result[c].value \in {Undefined, walletAddress})

C18_Witness ==
    \E c \in Callers :
        /\ addrPromise = "resolved" /\ walletAddress = SignerAddress
        /\ op[c] = "getWalletAddress" /\ pc[c] = "done"
        /\ result[c] = Return(SignerAddress)

\* C19: constructing a frontend client does not wait for the signer's
\* address: the constructor returns an instance with its transport set while
\* the address is still pending, and operations can be started in that state.
C19_FrontendDoesNotBlock ==
    /\ [][ ( /\ phase = "new" /\ FrontendMode
             /\ config.frontend.v.signer.v.hasGetAddress )
           => /\ phase' = "constructed"
              /\ client'.set
              /\ addrPromise' = "pending"
              /\ walletAddress' = Undefined ]_vars
    /\ [](( /\ phase = "constructed" /\ addrPromise = "pending" )
            => \A c \in Callers : pc[c] \in {"idle", "done"} =>
                 /\ ENABLED ExecuteProxyTransactions(c)
                 /\ ENABLED ExecuteSafeTransactions(c)
                 /\ ENABLED DeploySafe(c)
                 /\ ENABLED GetRelayerAddress(c)
                 /\ ENABLED GetTransaction(c)
                 /\ ENABLED GetNonce(c))

C19_Witness ==
    \E c \in Callers :
        /\ FrontendMode /\ phase = "constructed"
        /\ addrPromise = "pending" /\ walletAddress = Undefined
        /\ op[c] = "executeProxyTransactions" /\ pc[c] = "done"
        /\ result[c].kind = "return"

\* C20: a configuration that has both a backend and a frontend entry makes
\* the constructor throw its configuration error; no instance is created.
C20_BothModesRejected ==
    (config.backend.present /\ config.frontend.present /\ phase # "new")
        => /\ phase = "failed"
           /\ ctorError \in ConfigurationErrors
           /\ client = NoClient

BackendMode == BackendKeyTruthy(config)
SameKey(cfg) ==
    BackendKeyTruthy(cfg) /\ cfg.backend.v.privateKey = config.backend.v.privateKey

\* C21: once a backend client is constructed its address is resolved, it is
\* the address of the key, every construction from the same key (whatever
\* its relayerUrl, chainId and auth) leaves that same address, and
\* getWalletAddress returns it.
C21_BackendAddressIsTheKeys ==
    (BackendMode /\ phase = "constructed") =>
        /\ Truthy(walletAddress)
        /\ walletAddress = WalletAddressOf(config.backend.v.privateKey)
        /\ \A cfg \in Configs : SameKey(cfg) =>
              /\ ~constructor(cfg).threw
              /\ constructor(cfg).walletAddress = walletAddress
        /\ \A c \in Callers : op[c] = "getWalletAddress" =>
              result[c] = Return(walletAddress)

C21_Witness ==
    \E c \in Callers :
        /\ config = Config(Some([privateKey |-> "0xkey1"]), Absent, CustomOptions)
        /\ phase = "constructed"
        /\ op[c] = "getWalletAddress" /\ pc[c] = "done"
        /\ result[c] = Return("0xAddr1")
        /\ constructor(Config(Some([privateKey |-> "0xkey2"]), Absent,
                              DefaultOptions)).walletAddress = "0xAddr2"

\* C22: a configuration whose backend entry holds a key that is not well
\* formed (the empty key included) makes the constructor throw the key error
\* and leaves no transport client; a well-formed key never makes it throw.
C22_MalformedKeyRejected ==
    (config.backend.present /\ phase # "new") =>
        IF WellFormedKey(config.backend.v.privateKey)
        THEN phase = "constructed" /\ ctorError = Undefined /\ client.set
        ELSE /\ phase = "failed" /\ ctorError = MsgInvalidKey
             /\ client = NoClient

ReadOnlyOps == {"waitForTransaction", "getTransaction", "getTransactions",
                "getNonce"}
QueryMethods == {"getTransaction", "getTransactions", "getNonce"}
NonceAddresses == {SigningAddress, "0xOther"}
CallStep(c) ==
    << op[c], args[c], pc[c], tlog[c], obs[c], waits[c], result[c] >>
        # << op'[c], args'[c], pc'[c], tlog'[c], obs'[c], waits'[c], result'[c] >>
WaitRecord(c) == TransactionRecord(Params(c).transactionId)

\* C23: waitForTransaction, getTransaction, getTransactions and getNonce hand
\* the transport query calls only; no step of one of them changes the relay's
\* records or a nonce; a waitForTransaction for a transaction that is already
\* terminal observes the relay's record at every poll and its outcome is the
\* one that record decides; and a nonce that getNonce returned is the relay's
\* counter for as long as no submission follows.
C23_ReadOnlyOperations ==
    /\ [](\A c \in Callers : op[c] \in ReadOnlyOps =>
            \A i \in 1..Len(tlog[c]) : tlog[c][i].method \in QueryMethods)
    /\ [][\A c \in Callers : (CallStep(c) /\ op'[c] \in ReadOnlyOps) =>
            /\ relay' = relay
            /\ \A a \in NonceAddresses : RelayNonce(a)' = RelayNonce(a)]_vars
    /\ [](\A c \in Callers :
            ( /\ Waiting(c) /\ pc[c] = "done" /\ ~terr[c]
              /\ obs[c][1].state \in TerminalStates )
            => /\ \A i \in 1..Len(obs[c]) : obs[c][i] = WaitRecord(c)
               /\ result[c] = IF WaitRecord(c).state \in Params(c).desiredStates
                              THEN Return(WaitRecord(c))
                              ELSE Return(UndefinedValue))
    /\ [](\A c \in Callers :
            (op[c] = "getNonce" /\ pc[c] = "done" /\ ~terr[c] /\ tlog[c] # << >>)
            => result[c] = Return(RelayNonce(tlog[c][1].address)))

C23_Witness ==
    \E c \in Callers :
        /\ Waiting(c) /\ pc[c] = "done" /\ ~terr[c]
        /\ Params(c).desiredStates = {"STATE_MINED", "STATE_CONFIRMED"}
        /\ ObsStates(c) = << "STATE_FAILED", "STATE_FAILED" >>
        /\ relay["tx-1"] = "STATE_FAILED"
        /\ result[c] = Return(UndefinedValue)

\* C24: the constructor hands the transport no call: in the state it leaves,
\* whether it returned or threw, the transport has received nothing from the
\* constructor or from a caller and the relay has registered nothing.
C24_ConstructionCallsNothing ==
    /\ [](phase = "new" => ctorLog = << >>)
    /\ [][(phase = "new" /\ phase' # "new") =>
            /\ ctorLog' = << >>
            /\ \A c \in Callers : tlog'[c] = << >> /\ op'[c] = "idle"
            /\ \A id \in TxIds : relay'[id] = "none"]_vars
    /\ [][ctorLog' = ctorLog]_vars

C24_Witness ==
    /\ FrontendMode /\ config.auth.present
    /\ phase = "constructed" /\ client.set /\ client.auth.present
    /\ ctorLog = << >>
    /\ \A c \in Callers : op[c] = "idle" /\ tlog[c] = << >>

\* The poll loop run on its own against the answers `recs`: the polls it
\* makes and its outcome (Pending while the answers do not end it).
RECURSIVE AloneRun(_, _, _)
AloneRun(a, recs, k) ==
    IF k > Len(recs) THEN [polls |-> Len(recs), result |-> Pending]
    ELSE LET d == pollDecision(pollUntilStateArgs(WaitParams(a)), recs[k], k)
         IN  IF d = Pending THEN AloneRun(a, recs, k + 1)
             ELSE [polls |-> k, result |-> waitForTransactionResult(d)]

\* C25: with two waitForTransaction calls for different transactions in
\* flight, every step changes the state of one call at most; each call queries
\* and observes its own transaction only; and its poll count, remaining budget
\* and result are those the loop gives when run alone on its own arguments and
\* the states the relay reported for its transaction.
C25_PollersAreIndependent ==
    /\ [][\A c \in Pollers : \A d \in Pollers \ {c} :
            CallStep(c) => ~CallStep(d)]_vars
    /\ [](\A c \in Pollers : Waiting(c) =>
            /\ \A i \in 1..Len(tlog[c]) : tlog[c][i].id = args[c].transactionId
            /\ \A i \in 1..Len(obs[c]) :
                  obs[c][i].transactionID = args[c].transactionId
            /\ Params(c).maxPolls - Len(obs[c]) >= 0
            /\ Queries(c) = Len(obs[c]) + (IF pc[c] = "query" \/ terr[c] THEN 1 ELSE 0)
            /\ terr[c] => pc[c] = "done" /\ result[c].kind = "throw"
            /\ ~terr[c] =>
                  /\ AloneRun(args[c], obs[c], 1).polls = Len(obs[c])
                  /\ AloneRun(args[c], obs[c], 1).result = result[c]
                  /\ (pc[c] = "done") <=> (result[c] # Pending))

C25_Witness ==
    /\ Waiting("p") /\ Waiting("q")
    /\ Params("p").maxPolls = 1 /\ Params("q").maxPolls = MaxPollsBound
    /\ pc["p"] = "done" /\ pc["q"] = "sleep"
    /\ ObsStates("p") = << "STATE_NEW" >>
    /\ ObsStates("q") = << "STATE_NEW", "STATE_MINED" >>
    /\ result["p"] = Return(UndefinedValue) /\ result["q"] = Pending
    /\ relay["tx-1"] = "STATE_CONFIRMED"

OnlyId(c) == Waiting(c) /\ args[c] \in OnlyIdInputs
LoopArgs(c) == pollUntilStateArgs(WaitParams(args[c]))

\* C26 as stated: a waitForTransaction call with only an id hands the loop
\* desiredStates ["CONFIRMED"], failState "FAILED", maxPolls 60 and a poll
\* interval of 2000.
C26_BareNameDefaults ==
    \A c \in Callers : OnlyId(c) =>
        /\ LoopArgs(c).states = {"CONFIRMED"}
        /\ LoopArgs(c).failState = "FAILED"
        /\ LoopArgs(c).maxPolls = 60
        /\ LoopArgs(c).pollFrequency = 2000

\* C26 amended: a waitForTransaction call with only an id hands the loop
\* desiredStates ["STATE_CONFIRMED"], failState "STATE_FAILED", maxPolls 60
\* and a poll interval of 2000; the first poll that observes STATE_CONFIRMED
\* ends the call with that record, the first that observes STATE_FAILED ends
\* it with the "not reached" answer, and no call makes more than 60 queries.
C26_StateNameDefaults ==
    \A c \in Callers : OnlyId(c) =>
        /\ LoopArgs(c) = [transactionId |-> args[c].transactionId,
                          states |-> {"STATE_CONFIRMED"},
                          failState |-> "STATE_FAILED",
                          maxPolls |-> 60, pollFrequency |-> 2000]
        /\ Queries(c) <= 60
        /\ \A k \in 1..Len(obs[c]) :
              /\ obs[c][k].state = "STATE_CONFIRMED" =>
                    /\ pc[c] = "done" /\ Len(obs[c]) = k
                    /\ result[c] = Return(obs[c][k])
              /\ obs[c][k].state = "STATE_FAILED" =>
                    /\ pc[c] = "done" /\ Len(obs[c]) = k
                    /\ result[c] = Return(UndefinedValue)
        /\ (pc[c] = "done" /\ ~terr[c]) =>
              \/ obs[c][Len(obs[c])].state \in {"STATE_CONFIRMED", "STATE_FAILED"}
              \/ Len(obs[c]) = 60

C26_Witness ==
    \E c \in Callers :
        /\ OnlyId(c) /\ pc[c] = "done" /\ ~terr[c]
        /\ Len(obs[c]) = 5
        /\ obs[c][4].state = "STATE_MINED"
        /\ obs[c][5].state = "STATE_CONFIRMED"
        /\ result[c] = Return([transactionID |-> "tx-1", state |-> "STATE_CONFIRMED"])

\* C27: when the fail state of a waitForTransaction call is also one of its
\* desired states, a poll that observes it ends the call with the observed
\* record, never with the "not reached" answer.
C27_DesiredBeforeFail ==
    \A c \in Callers :
        (Waiting(c) /\ Params(c).failState \in Params(c).desiredStates) =>
            /\ \A k \in 1..Len(obs[c]) :
                  obs[c][k].state = Params(c).failState =>
                      /\ pc[c] = "done" /\ Len(obs[c]) = k
                      /\ result[c] = Return(obs[c][k])
                      /\ result[c] # Return(UndefinedValue)
            /\ (pc[c] = "done" /\ result[c] = Return(UndefinedValue)) =>
                  /\ Len(obs[c]) = Params(c).maxPolls
                  /\ \A k \in 1..Len(obs[c]) : NonTerminalFor(c, obs[c][k])

C27_Witness ==
    \E c \in Callers :
        /\ Waiting(c) /\ pc[c] = "done"
        /\ Params(c).failState = "STATE_FAILED"
        /\ "STATE_FAILED" \in Params(c).desiredStates
        /\ ObsStates(c) = << "STATE_EXECUTED", "STATE_FAILED" >>
        /\ result[c] = Return([transactionID |-> "tx-1", state |-> "STATE_FAILED"])

NonceCalls(c) == SelectSeq(tlog[c], LAMBDA t : t.method = "getNonce")

\* C28: whatever the order of getNonce calls and the resolution of the
\* signer's address, no getNonce call reaches the transport without an
\* address; a getNonce() started while the address is unresolved ends in that
\* step with the no-address error and no transport call, and the resolution
\* that completes afterwards changes nothing of that call.
C28_NoNonceCallWithoutAddress ==
    /\ [](\A c \in Callers : \A i \in 1..Len(NonceCalls(c)) :
            Truthy(NonceCalls(c)[i].address))
    /\ [][\A c \in Callers :
            ( /\ CallStep(c) /\ op'[c] = "getNonce" /\ pc[c] \in {"idle", "done"}
              /\ ~Truthy(args'[c].signerAddress)
              /\ walletAddress = Undefined )
            => /\ pc'[c] = "done" /\ tlog'[c] = << >>
               /\ result'[c] = NoAddressAvailable]_vars
    /\ [][(addrPromise' # addrPromise /\ phase = "constructed") =>
            \A c \in Callers : ~CallStep(c)]_vars
    /\ [](\A c \in Callers :
            (op[c] = "getNonce" /\ result[c] = NoAddressAvailable) =>
                pc[c] = "done" /\ tlog[c] = << >> /\ ~terr[c])

C28_Witness ==
    \E c \in Callers :
        /\ FrontendMode /\ addrPromise = "resolved"
        /\ walletAddress = SignerAddress
        /\ op[c] = "getNonce" /\ pc[c] = "done"
        /\ args[c].signerAddress = Undefined
        /\ tlog[c] = << >>
        /\ result[c] = NoAddressAvailable

BothConfigured == BackendKeyTruthy(config) /\ FrontendSignerTruthy(config)

\* C29: a client constructed from a configuration with both a backend key
\* and a frontend signer uses the key: its address is the key's, at once and
\* for good, its transport holds the backend wallet, and the signer is never
\* asked for its address.
C29_BackendTakesPrecedence ==
    (BothConfigured /\ phase = "constructed") =>
        /\ walletAddress = WalletAddressOf(config.backend.v.privateKey)
        /\ walletAddress # SignerAddress
        /\ client.set
        /\ client.signer = [wallet |-> config.backend.v.privateKey]
        /\ addrPromise = "none"

C29_Witness ==
    \E c \in Callers :
        /\ BothConfigured /\ config.frontend.v.signer.v.hasGetAddress
        /\ phase = "constructed" /\ addrPromise = "none"
        /\ walletAddress = "0xAddr1"
        /\ op[c] = "getNonce" /\ pc[c] = "done" /\ ~terr[c]
        /\ tlog[c][1].address = "0xAddr1"

UsableMode == BackendKeyTruthy(config) \/ FrontendSignerTruthy(config)

\* C30: a constructed client has its transport set, holding either the
\* backend wallet or the frontend signer; a configuration whose entries give
\* neither a non-empty key nor a signer makes the constructor throw; and no
\* operation ever runs without a transport.
C30_TransportAlwaysSet ==
    /\ phase = "constructed" =>
          /\ client.set
          /\ IF BackendKeyTruthy(config)
             THEN client.signer = [wallet |-> config.backend.v.privateKey]
             ELSE /\ FrontendSignerTruthy(config)
                  /\ client.signer = [signer |-> config.frontend.v.signer.v]
    /\ (~UsableMode /\ phase # "new") =>
          /\ phase = "failed" /\ ctorError \in ConfigurationErrors
          /\ client = NoClient
    /\ \A c \in Callers : op[c] # "idle" => client.set

C30_Witness ==
    /\ config.backend.present /\ config.backend.v.privateKey = ""
    /\ config.frontend.present /\ ~config.frontend.v.signer.present
    /\ phase = "failed" /\ ctorError = MsgInvalidConfig
    /\ client = NoClient
    /\ \A c \in Callers : op[c] = "idle"

=============================================================================
